---- MODULE Spec2Model ----
(***************************************************************************)
(* Deployment state resolution of paasta_tools/generate_deployments_for_   *)
(* service.py: the tag codec of get_desired_state, the mapping resolver    *)
(* get_deploy_group_mappings, the manifest load/save of main, and the      *)
(* state mutator mark_for_deployment that writes the tags the resolver     *)
(* reads.                                                                  *)
(*                                                                         *)
(* Python strings are sequences of one-character strings, so that regular  *)
(* expression matching, string formatting and string comparison are        *)
(* computed character by character.                                        *)
(***************************************************************************)
EXTENDS Integers, Sequences, FiniteSets, TLC

-----------------------------------------------------------------------------
(* Characters and strings *)

\* The characters that occur in the modelled names, in ASCII order.
Alphabet ==
    << "-", ".", "/", "0", "1", "2", "3", "4", "5", "6", "7", "8", "9", ":",
       "_", "a", "b", "c", "d", "e", "f", "g", "h", "i", "j", "k", "l", "m",
       "n", "o", "p", "q", "r", "s", "t", "u", "v", "w", "x", "y", "z" >>

\* Position of a character in the ASCII order.
Ord(c) == CHOOSE i \in 1..Len(Alphabet) : Alphabet[i] = c

\* Python 2 comparison of two str values: -1, 0 or 1, lexicographic by
\* character code, a proper prefix sorting first.
RECURSIVE StrCmp(_, _)
StrCmp(a, b) ==
    IF a = <<>> /\ b = <<>> THEN 0
    ELSE IF a = <<>> THEN -1
    ELSE IF b = <<>> THEN 1
    ELSE IF Ord(Head(a)) < Ord(Head(b)) THEN -1
    ELSE IF Ord(Head(a)) > Ord(Head(b)) THEN 1
    ELSE StrCmp(Tail(a), Tail(b))

\* Python's None.  Every str is a sequence of characters of Alphabet, so
\* this value differs from every str.
None == << "None" >>

START == << "s", "t", "a", "r", "t" >>
STOP == << "s", "t", "o", "p" >>

\* 'refs/heads/%s' % deploy_group
RefsHeadsPrefix == << "r", "e", "f", "s", "/", "h", "e", "a", "d", "s", "/" >>
DeployRefName(deploy_group) == RefsHeadsPrefix \o deploy_group

\* The literal head of tag_pattern: 'refs/tags/paasta-'
TagPatternPrefix ==
    << "r", "e", "f", "s", "/", "t", "a", "g", "s", "/",
       "p", "a", "a", "s", "t", "a", "-" >>

-----------------------------------------------------------------------------
(* get_desired_state: the tag pattern *)

\* One pattern character against one text character.  The branch is pasted
\* into the pattern unescaped, so a "." of the branch is the regular
\* expression wildcard; the other characters of Alphabet stand for
\* themselves.
AtomMatches(p, c) == p = "." \/ p = c

\* The index of the first "-" of s at or after position i, or Len(s) + 1.
RECURSIVE FirstHyphen(_, _)
FirstHyphen(s, i) ==
    IF i > Len(s) THEN Len(s) + 1
    ELSE IF s[i] = "-" THEN i
    ELSE FirstHyphen(s, i + 1)

\* The index of the last "-" of s after position i, or i.
RECURSIVE LastHyphen(_, _)
LastHyphen(s, i) ==
    IF Len(s) <= i THEN i
    ELSE IF s[Len(s)] = "-" THEN Len(s)
    ELSE LastHyphen(SubSeq(s, 1, Len(s) - 1), i)

\* Mutant of TagMatch: the state is what follows the last "-", as with the
\* pattern (?P<force_bounce>.+)-(?P<state>[^-]*).
TagMatchLastHyphen(branch, ref_name) ==
    LET head == TagPatternPrefix \o branch \o << "-" >>
        n == Len(head)
        h == LastHyphen(ref_name, n + 1)
    IN  IF /\ Len(ref_name) >= n
           /\ \A i \in 1..n : AtomMatches(head[i], ref_name[i])
           /\ h > n + 1
        THEN << [ force_bounce |-> SubSeq(ref_name, n + 1, h - 1),
                  state |-> SubSeq(ref_name, h + 1, Len(ref_name)) ] >>
        ELSE <<>>

\* re.match(tag_pattern, ref_name) with
\*   tag_pattern = r'^refs/tags/paasta-%s-(?P<force_bounce>[^-]+)-(?P<state>.*)$' % branch
\* The part up to the first group has a fixed length; [^-]+ takes the
\* characters up to the next "-" and needs at least one; .* takes the rest.
\* The result is <<>> for no match, or << groupdict >>.
TagMatch(branch, ref_name) ==
    LET head == TagPatternPrefix \o branch \o << "-" >>
        n == Len(head)
        h == FirstHyphen(ref_name, n + 1)
    IN  IF /\ Len(ref_name) >= n
           /\ \A i \in 1..n : AtomMatches(head[i], ref_name[i])
           /\ h > n + 1
           /\ h <= Len(ref_name)
        THEN << [ force_bounce |-> SubSeq(ref_name, n + 1, h - 1),
                  state |-> SubSeq(ref_name, h + 1, Len(ref_name)) ] >>
        ELSE <<>>

-----------------------------------------------------------------------------
(* get_desired_state: collecting and sorting the states *)

\* Insert x into the sorted list s after every element whose key (the
\* force_bounce, x[2]) is not greater: the stable order of sorted().
RECURSIVE InsertByKey(_, _)
InsertByKey(s, x) ==
    IF s = <<>> THEN << x >>
    ELSE IF StrCmp(x[2], Head(s)[2]) < 0 THEN << x >> \o s
    ELSE << Head(s) >> \o InsertByKey(Tail(s), x)

\* sorted(states, key=lambda x: x[1])
RECURSIVE SortedByForceBounce(_)
SortedByForceBounce(states) ==
    IF states = <<>> THEN <<>>
    ELSE InsertByKey(SortedByForceBounce(SubSeq(states, 1, Len(states) - 1)),
                     states[Len(states)])

\* Mutant of CollectStates: the commit a ref points at is not looked at.
RECURSIVE CollectStatesAnySha(_, _, _, _, _)
CollectStatesAnySha(branch, remote_refs, head_sha, order, k) ==
    IF k = 0 THEN <<>>
    ELSE LET rest == CollectStatesAnySha(branch, remote_refs, head_sha, order, k - 1)
             match == TagMatch(branch, order[k])
         IN  IF match # <<>>
             THEN Append(rest, << match[1].state, match[1].force_bounce >>)
             ELSE rest

\* The states list built by the loop over remote_refs.iteritems(), which
\* enumerates the refs in the order the dict gives them: order[1..k].
RECURSIVE CollectStates(_, _, _, _, _)
CollectStates(branch, remote_refs, head_sha, order, k) ==
    IF k = 0 THEN <<>>
    ELSE LET rest == CollectStates(branch, remote_refs, head_sha, order, k - 1)
             ref_name == order[k]
             match == TagMatch(branch, ref_name)
         IN  IF remote_refs[ref_name] = head_sha /\ match # <<>>
             THEN Append(rest, << match[1].state, match[1].force_bounce >>)
             ELSE rest

\* Mutant of GetDesiredState: the state that sorts first is taken.
GetDesiredStateFirst(branch, remote_refs, deploy_group, order) ==
    LET head_sha == remote_refs[DeployRefName(deploy_group)]
        states == CollectStates(branch, remote_refs, head_sha, order, Len(order))
        sorted_states == SortedByForceBounce(states)
    IN  IF states # <<>>
        THEN sorted_states[1]
        ELSE << START, None >>

\* get_desired_state(service, branch, remote_refs, deploy_group); order is the
\* enumeration order of the dict remote_refs.  Returns (state, force_bounce).
GetDesiredState(branch, remote_refs, deploy_group, order) ==
    LET head_sha == remote_refs[DeployRefName(deploy_group)]
        states == CollectStates(branch, remote_refs, head_sha, order, Len(order))
        sorted_states == SortedByForceBounce(states)
    IN  IF states # <<>>
        THEN sorted_states[Len(sorted_states)]
        ELSE << START, None >>

-----------------------------------------------------------------------------
(* The mapping resolver: get_deploy_group_mappings *)

\* build_docker_image_name: 'services-%s:paasta-%s' % (service, sha)
build_docker_image_name(service, sha) ==
    << "s", "e", "r", "v", "i", "c", "e", "s", "-" >> \o service
        \o << ":", "p", "a", "a", "s", "t", "a", "-" >> \o sha

\* '%s:%s' % (service, deploy_group)
DeployGroupBranchAlias(service, deploy_group) ==
    service \o << ":" >> \o deploy_group

\* A Python dict is a function; this is {}.
EmptyDict == [k \in {} |-> <<>>]

\* dict((config.get_branch(), config.get_deploy_group()) for config in
\* service_configs): a later config replaces an earlier one with its branch.
RECURSIVE DeployGroupBranchMappings(_)
DeployGroupBranchMappings(service_configs) ==
    IF service_configs = <<>> THEN EmptyDict
    ELSE LET n == Len(service_configs)
             rest == DeployGroupBranchMappings(SubSeq(service_configs, 1, n - 1))
             last == service_configs[n]
         IN  [b \in DOMAIN rest \cup {last.branch} |->
                 IF b = last.branch THEN last.deploy_group ELSE rest[b]]

\* Mutant of LoopBody: a deploy group without a head gets an entry all the
\* same, for the empty sha.
LoopBodyKeepsAbsent(service, mappings, control_branch, deploy_group, remote_refs, order) ==
    LET alias == DeployGroupBranchAlias(service, deploy_group)
        present == DeployRefName(deploy_group) \in DOMAIN remote_refs
        ds == IF present
              THEN GetDesiredState(control_branch, remote_refs, deploy_group, order)
              ELSE << START, None >>
        commit_sha == IF present THEN remote_refs[DeployRefName(deploy_group)] ELSE <<>>
        mapping == [ docker_image |-> build_docker_image_name(service, commit_sha),
                     desired_state |-> ds[1],
                     force_bounce |-> ds[2] ]
    IN  [k \in DOMAIN mappings \cup {alias} |->
            IF k = alias THEN mapping ELSE mappings[k]]

\* The variant that builds the image name from the least of the heads of the
\* snapshot, whichever deploy group it is the head of.
LoopBodyImageOfLeastHead(service, mappings, control_branch, deploy_group, remote_refs, order) ==
    LET deploy_ref_name == DeployRefName(deploy_group) IN
    IF deploy_ref_name \in DOMAIN remote_refs
    THEN LET heads == { r \in DOMAIN remote_refs :
                          /\ Len(r) >= Len(RefsHeadsPrefix)
                          /\ SubSeq(r, 1, Len(RefsHeadsPrefix)) = RefsHeadsPrefix }
             least == CHOOSE r \in heads : \A q \in heads : StrCmp(r, q) <= 0
             alias == DeployGroupBranchAlias(service, deploy_group)
             ds == GetDesiredState(control_branch, remote_refs, deploy_group, order)
             mapping == [ docker_image |-> build_docker_image_name(service, remote_refs[least]),
                          desired_state |-> ds[1],
                          force_bounce |-> ds[2] ]
         IN  [k \in DOMAIN mappings \cup {alias} |->
                 IF k = alias THEN mapping ELSE mappings[k]]
    ELSE mappings

\* The variant that keeps the force_bounce a mapping already has.
LoopBodyKeepsForceBounce(service, mappings, control_branch, deploy_group, remote_refs, order) ==
    LET deploy_ref_name == DeployRefName(deploy_group) IN
    IF deploy_ref_name \in DOMAIN remote_refs
    THEN LET commit_sha == remote_refs[deploy_ref_name]
             alias == DeployGroupBranchAlias(service, deploy_group)
             ds == GetDesiredState(control_branch, remote_refs, deploy_group, order)
             mapping == [ docker_image |-> build_docker_image_name(service, commit_sha),
                          desired_state |-> ds[1],
                          force_bounce |-> IF alias \in DOMAIN mappings
                                           THEN mappings[alias].force_bounce
                                           ELSE ds[2] ]
         IN  [k \in DOMAIN mappings \cup {alias} |->
                 IF k = alias THEN mapping ELSE mappings[k]]
    ELSE mappings

\* The body of the loop of get_deploy_group_mappings for one item
\* (control_branch, deploy_group): the mappings after it.
LoopBody(service, mappings, control_branch, deploy_group, remote_refs, order) ==
    LET deploy_ref_name == DeployRefName(deploy_group) IN
    IF deploy_ref_name \in DOMAIN remote_refs
    THEN LET commit_sha == remote_refs[deploy_ref_name]
             alias == DeployGroupBranchAlias(service, deploy_group)
             ds == GetDesiredState(control_branch, remote_refs, deploy_group, order)
             mapping == [ docker_image |-> build_docker_image_name(service, commit_sha),
                          desired_state |-> ds[1],
                          force_bounce |-> ds[2] ]
         IN  [k \in DOMAIN mappings \cup {alias} |->
                 IF k = alias THEN mapping ELSE mappings[k]]
    ELSE mappings

-----------------------------------------------------------------------------
(* The manifest: JSON documents, json.load and json.dump *)

\* The key 'v1'.
V1 == << "v", "1" >>

\* A JSON value is [t |-> its type, v |-> its content]; an object's content
\* is a function from member names to JSON values.
JsonString(s) == [t |-> "string", v |-> s]
JsonNull == [t |-> "null", v |-> <<>>]
JsonArray(s) == [t |-> "array", v |-> s]
JsonObject(f) == [t |-> "object", v |-> f]

\* The value json.load returns is [t |-> its Python type, v |-> its content].
\* Python 2: every JSON string loads as a unicode, never a str.
RECURSIVE JsonLoad(_)
JsonLoad(j) ==
    CASE j.t = "object" -> [t |-> "dict", v |-> [k \in DOMAIN j.v |-> JsonLoad(j.v[k])]]
      [] j.t = "array" -> [t |-> "list", v |-> [i \in DOMAIN j.v |-> JsonLoad(j.v[i])]]
      [] j.t = "string" -> [t |-> "unicode", v |-> j.v]
      [] j.t = "null" -> [t |-> "NoneType", v |-> <<>>]

\* json.dump of one field of a mapping: a str or None.
DumpField(x) == IF x = None THEN JsonNull ELSE JsonString(x)

\* get_deployments_dict_from_deploy_group_mappings: {'v1': deploy_group_mappings}
get_deployments_dict_from_deploy_group_mappings(deploy_group_mappings) ==
    [k \in {V1} |-> deploy_group_mappings]

\* json.dump(deployments_dict, f) for the dict main builds.
JsonDump(deployments_dict) ==
    JsonObject([k \in DOMAIN deployments_dict |->
        JsonObject([a \in DOMAIN deployments_dict[k] |->
            LET m == deployments_dict[k][a] IN
            JsonObject([ docker_image |-> DumpField(m.docker_image),
                         desired_state |-> DumpField(m.desired_state),
                         force_bounce |-> DumpField(m.force_bounce) ])])])

\* A file is absent, holds text that is no JSON, or holds a JSON document.
FileMissing == [kind |-> "missing", value |-> JsonNull]
FileGarbage == [kind |-> "garbage", value |-> JsonNull]
FileJson(j) == [kind |-> "json", value |-> j]

\* The variant that returns the dict it was given.
FromDeploymentsDictWhole(deployments_dict) == deployments_dict

\* The variant that upgrades every entry of a dict without 'v1'.
FromDeploymentsDictUpgradesAll(deployments_dict) ==
    IF V1 \in DOMAIN deployments_dict
    THEN deployments_dict[V1]
    ELSE [deploy_group \in DOMAIN deployments_dict |->
             [ docker_image |-> deployments_dict[deploy_group].v,
               desired_state |-> START,
               force_bounce |-> None ]]

\* get_deploy_group_mappings_from_deployments_dict: the value under 'v1', or
\* for want of that key the upgrade of the entries whose value is a str.
\* deployments_dict is a dict; the values of a dict without 'v1' are values
\* [t |-> Python type, v |-> content], as json.load gives them.
get_deploy_group_mappings_from_deployments_dict(deployments_dict) ==
    IF V1 \in DOMAIN deployments_dict
    THEN deployments_dict[V1]
    ELSE [deploy_group \in {k \in DOMAIN deployments_dict :
                               deployments_dict[k].t = "str"} |->
             [ docker_image |-> deployments_dict[deploy_group].v,
               desired_state |-> START,
               force_bounce |-> None ]]

\* The try block of main, lines 225-230: what loading the old manifest ends
\* with.  [raised |-> the exception that leaves main, or "", old_mappings].
\* open() of a missing file raises IOError and json.load of text that is no
\* JSON raises ValueError, both caught; subscripting a loaded value that is
\* no dict with 'v1' raises TypeError, which the except clause does not name.
LoadOldMappings(file) ==
    IF file.kind = "missing" \/ file.kind = "garbage"
    THEN [raised |-> "", old_mappings |-> EmptyDict]
    ELSE LET old_deployments_dict == JsonLoad(file.value) IN
         IF old_deployments_dict.t = "dict"
         THEN [raised |-> "",
               old_mappings |->
                   get_deploy_group_mappings_from_deployments_dict(old_deployments_dict.v)]
         ELSE [raised |-> "TypeError", old_mappings |-> EmptyDict]

-----------------------------------------------------------------------------
(* The names the model draws its inputs from *)

Service == << "s", "v", "c" >>

\* Commit ids.
Sha1 == << "c", "1" >>
Sha2 == << "c", "2" >>
Shas == {Sha1, Sha2}

\* Deploy groups.
Group1 == << "g", "1" >>
Group2 == << "g", "2" >>

\* Control branches <cluster>.<instance>: cluster a, instance b; one that
\* differs from it where it has its "."; one that extends it by "-c".
BranchAB == << "a", ".", "b" >>
BranchAXB == << "a", "x", "b" >>
BranchABC == << "a", ".", "b", "-", "c" >>
Branches == {BranchAB, BranchAXB, BranchABC}

\* force_bounce tokens.
Token5 == << "5" >>
Token42 == << "4", "2" >>
Tokens == {Token5, Token42}

\* The tag of the ledger protocol for (branch, force_bounce, state):
\* refs/tags/paasta-<branch>-<force_bounce>-<state>
FormatTag(branch, force_bounce, state) ==
    << "r", "e", "f", "s", "/", "t", "a", "g", "s", "/" >>
        \o << "p", "a", "a", "s", "t", "a", "-" >>
        \o branch \o << "-" >> \o force_bounce \o << "-" >> \o state

\* The state tags operators write: every token and state for one branch, and
\* two tags for each of the other branches.
StateTags ==
    {FormatTag(BranchAB, f, st) : f \in Tokens, st \in {START, STOP}}
        \cup {FormatTag(b, Token5, STOP) : b \in {BranchAXB, BranchABC}}
        \cup {FormatTag(b, Token42, START) : b \in {BranchAXB, BranchABC}}

\* The lists of instance configs (branch, deploy_group) of a service: two
\* deploy groups with a branch each; one deploy group driven by two
\* branches; a marathon instance and a chronos job of one name, hence one
\* branch, with a deploy group each; and no instance at all.
Config(branch, deploy_group) == [branch |-> branch, deploy_group |-> deploy_group]
ServiceConfigs ==
    { << Config(BranchAB, Group1), Config(BranchAXB, Group2) >>,
      << Config(BranchAB, Group1), Config(BranchABC, Group1) >>,
      << Config(BranchAB, Group1), Config(BranchAB, Group2) >>,
      <<>> }

\* The enumeration orders a dict with the keys S can have.
Orders(S) ==
    {o \in [1..Cardinality(S) -> S] : \A i, j \in DOMAIN o : o[i] = o[j] => i = j}

\* Bounds of the model.
MaxTags == 2
MaxPushes == 2

-----------------------------------------------------------------------------
(* State *)

VARIABLES
    configs,        \* the instance configs get_instance_config_for_service yields
    remote,         \* the refs of the service's git repository: ref name -> sha
    manifest,       \* the file deployments.json
    pc,             \* where main is: idle, loaded, fetched, resolved, done, raised
    raised,         \* the exception that left main, or ""
    old_mappings,   \* main's old_mappings
    remote_refs,    \* get_deploy_group_mappings' remote_refs, the snapshot
    todo,           \* the branches the loop of get_deploy_group_mappings has to visit
    mappings,       \* get_deploy_group_mappings' mappings
    calls,          \* the calls of get_desired_state of this pass, in order
    fetches,        \* the calls of list_remote_refs of this pass
    prior,          \* the file deployments.json as it was when this pass began
    pushes,         \* the pushes made to the repository
    mark,           \* the running call of mark_for_deployment
    codec,          \* a tag formatted and matched
    rollback,       \* the running call of paasta_rollback
    store,          \* a set of mappings wrapped into a document and read back
    image           \* a docker image name built and parsed

vars == << configs, remote, manifest, pc, raised, old_mappings, remote_refs,
           todo, mappings, calls, fetches, prior, pushes, mark, codec,
                    rollback, store, image >>

passVars == << pc, raised, old_mappings, remote_refs, todo, mappings, calls,
               fetches, prior >>

NoMark == [pc |-> "none", branch |-> <<>>, force_bounce |-> <<>>, commit |-> <<>>,
           attempts |-> 0, pushed |-> "", rc |-> 0]
NoCodec == [pc |-> "none", branch |-> <<>>, with_branch |-> <<>>,
            force_bounce |-> <<>>, state |-> <<>>, ref_name |-> <<>>, match |-> <<>>]
NoRollback == [pc |-> "none", cluster |-> "", service_instances |-> <<>>,
               given_instances |-> <<>>, instances |-> {}, invalid |-> {},
               todo |-> {}, marked |-> <<>>, failed |-> FALSE, returncode |-> 0]
NoStore == [pc |-> "none", mappings |-> EmptyDict, deployments_dict |-> EmptyDict,
            loaded |-> EmptyDict]
NoImage == [pc |-> "none", registry |-> <<>>, service |-> <<>>, sha |-> <<>>,
            image_name |-> <<>>, matched |-> FALSE, group |-> <<>>]

\* The repository before any state tag: the deploy groups' heads.
InitialRemotes ==
    { (DeployRefName(Group1) :> Sha1) @@ (DeployRefName(Group2) :> Sha2),
      (DeployRefName(Group1) :> Sha1) }

\* The documents deployments.json may hold before a pass: none, text that
\* is no JSON, a JSON array, a legacy document, a v1 document without
\* mappings, a v1 document with a mapping.
InitialManifests ==
    { FileMissing,
      FileGarbage,
      FileJson(JsonArray(<<>>)),
      FileJson(JsonObject(
          [k \in {DeployGroupBranchAlias(Service, Group1)} |->
              JsonString(build_docker_image_name(Service, Sha2))])),
      FileJson(JsonDump(get_deployments_dict_from_deploy_group_mappings(EmptyDict))),
      FileJson(JsonDump(get_deployments_dict_from_deploy_group_mappings(
          [k \in {DeployGroupBranchAlias(Service, Group2)} |->
              [ docker_image |-> build_docker_image_name(Service, Sha1),
                desired_state |-> STOP,
                force_bounce |-> Token5 ]]))) }

\* The services of the system: one with two deploy groups, one with no
\* instance.
SystemConfigs ==
    { << Config(BranchAB, Group1), Config(BranchAXB, Group2) >>, <<>> }

Init ==
    /\ configs \in SystemConfigs
    /\ remote \in InitialRemotes
    /\ manifest \in InitialManifests
    /\ pc = "idle"
    /\ raised = ""
    /\ old_mappings = EmptyDict
    /\ remote_refs = EmptyDict
    /\ todo = {}
    /\ mappings = EmptyDict
    /\ calls = <<>>
    /\ fetches = 0
    /\ prior = manifest
    /\ pushes = 0
    /\ mark = NoMark
    /\ codec = NoCodec
    /\ rollback = NoRollback
    /\ store = NoStore
    /\ image = NoImage

-----------------------------------------------------------------------------
(* main: one resolution pass *)

\* main, lines 217-230: a pass begins and loads the old manifest.
MainLoad ==
    /\ pc \in {"idle", "done", "raised"}
    /\ prior' = manifest
    /\ LET r == LoadOldMappings(manifest) IN
       /\ raised' = r.raised
       /\ old_mappings' = r.old_mappings
       /\ pc' = IF r.raised = "" THEN "loaded" ELSE "raised"
    /\ remote_refs' = EmptyDict
    /\ todo' = {}
    /\ mappings' = EmptyDict
    /\ calls' = <<>>
    /\ fetches' = 0
    /\ UNCHANGED << configs, remote, manifest, pushes, mark, codec,
                    rollback, store, image >>

\* get_deploy_group_mappings, lines 127-130: no config, so no fetch and {}.
NoDeployGroups ==
    /\ pc = "loaded"
    /\ DeployGroupBranchMappings(configs) = EmptyDict
    /\ pc' = "resolved"
    /\ UNCHANGED << configs, remote, manifest, raised, old_mappings, remote_refs,
                    todo, mappings, calls, fetches, prior, pushes, mark, codec,
                    rollback, store, image >>

\* get_deploy_group_mappings, lines 132-133: list_remote_refs returns the
\* refs the repository has now.
FetchRefs ==
    /\ pc = "loaded"
    /\ DeployGroupBranchMappings(configs) # EmptyDict
    /\ remote_refs' = remote
    /\ fetches' = fetches + 1
    /\ todo' = DOMAIN DeployGroupBranchMappings(configs)
    /\ pc' = "fetched"
    /\ UNCHANGED << configs, remote, manifest, raised, old_mappings, mappings,
                    calls, prior, pushes, mark, codec,
                    rollback, store, image >>

\* Mutant of FetchFails: the failure is caught and the pass goes on with no
\* mapping.
FetchFailsSwallowed ==
    /\ pc = "loaded"
    /\ DeployGroupBranchMappings(configs) # EmptyDict
    /\ fetches' = fetches + 1
    /\ raised' = "RefFetchError"
    /\ pc' = "resolved"
    /\ UNCHANGED << configs, remote, manifest, old_mappings, remote_refs, todo,
                    mappings, calls, prior, pushes, mark, codec,
                    rollback, store, image >>

\* list_remote_refs raises; nothing in get_deploy_group_mappings or main
\* catches it.
FetchFails ==
    /\ pc = "loaded"
    /\ DeployGroupBranchMappings(configs) # EmptyDict
    /\ fetches' = fetches + 1
    /\ raised' = "RefFetchError"
    /\ pc' = "raised"
    /\ UNCHANGED << configs, remote, manifest, old_mappings, remote_refs, todo,
                    mappings, calls, prior, pushes, mark, codec,
                    rollback, store, image >>

\* The call of get_desired_state the loop body makes, as calls records it.
CallRecord(branch, deploy_group, refs, order) ==
    [ branch |-> branch,
      deploy_group |-> deploy_group,
      states |-> CollectStates(branch, refs, refs[DeployRefName(deploy_group)],
                               order, Len(order)),
      ret |-> GetDesiredState(branch, refs, deploy_group, order) ]

\* Mutant of LoopStep: each turn of the loop reads the repository anew.
LoopStepLive ==
    /\ pc = "fetched"
    /\ \E control_branch \in todo :
       \E order \in Orders(DOMAIN remote) :
          LET deploy_group == DeployGroupBranchMappings(configs)[control_branch] IN
          /\ mappings' = LoopBody(Service, mappings, control_branch, deploy_group,
                                  remote, order)
          /\ calls' = IF DeployRefName(deploy_group) \in DOMAIN remote
                      THEN Append(calls, CallRecord(control_branch, deploy_group,
                                                    remote, order))
                      ELSE calls
          /\ todo' = todo \ {control_branch}
    /\ UNCHANGED << configs, remote, manifest, pc, raised, old_mappings,
                    remote_refs, fetches, prior, pushes, mark, codec,
                    rollback, store, image >>

\* get_deploy_group_mappings, lines 135-152: one turn of the loop, for an
\* item of deploy_group_branch_mappings the dict gives next, with the refs
\* enumerated in an order the dict remote_refs gives them.
LoopStep ==
    /\ pc = "fetched"
    /\ \E control_branch \in todo :
       \E order \in Orders(DOMAIN remote_refs) :
          LET deploy_group == DeployGroupBranchMappings(configs)[control_branch] IN
          /\ mappings' = LoopBody(Service, mappings, control_branch, deploy_group,
                                  remote_refs, order)
          /\ calls' = IF DeployRefName(deploy_group) \in DOMAIN remote_refs
                      THEN Append(calls, CallRecord(control_branch, deploy_group,
                                                    remote_refs, order))
                      ELSE calls
          /\ todo' = todo \ {control_branch}
    /\ UNCHANGED << configs, remote, manifest, pc, raised, old_mappings,
                    remote_refs, fetches, prior, pushes, mark, codec,
                    rollback, store, image >>

\* get_deploy_group_mappings, line 154: the loop is over, return mappings.
LoopEnd ==
    /\ pc = "fetched"
    /\ todo = {}
    /\ pc' = "resolved"
    /\ UNCHANGED << configs, remote, manifest, raised, old_mappings, remote_refs,
                    todo, mappings, calls, fetches, prior, pushes, mark, codec,
                    rollback, store, image >>

\* The variant that patches the old manifest: the mappings a v1 manifest had
\* stay for the keys this pass has no mapping for.
WriteManifestPatched ==
    /\ pc = "resolved"
    /\ LET new == JsonDump(get_deployments_dict_from_deploy_group_mappings(mappings)).v[V1].v
           old == IF /\ prior.kind = "json"
                     /\ prior.value.t = "object"
                     /\ V1 \in DOMAIN prior.value.v
                     /\ prior.value.v[V1].t = "object"
                  THEN prior.value.v[V1].v
                  ELSE EmptyDict
           patched == [k \in DOMAIN old \cup DOMAIN new |->
                          IF k \in DOMAIN new THEN new[k] ELSE old[k]]
       IN  manifest' = FileJson(JsonObject([k \in {V1} |-> JsonObject(patched)]))
    /\ pc' = "done"
    /\ UNCHANGED << configs, remote, raised, old_mappings, remote_refs, todo,
                    mappings, calls, fetches, prior, pushes, mark, codec,
                    rollback, store, image >>

\* main, lines 233-236: the new manifest replaces the file.
WriteManifest ==
    /\ pc = "resolved"
    /\ manifest' = FileJson(JsonDump(
                       get_deployments_dict_from_deploy_group_mappings(mappings)))
    /\ pc' = "done"
    /\ UNCHANGED << configs, remote, raised, old_mappings, remote_refs, todo,
                    mappings, calls, fetches, prior, pushes, mark, codec,
                    rollback, store, image >>

-----------------------------------------------------------------------------
(* The state mutator and the other writers of the repository *)

\* dict assignment d[k] = x
DictSet(d, k, x) == [j \in DOMAIN d \cup {k} |-> IF j = k THEN x ELSE d[j]]

\* mark_for_deployment is called for (cluster.instance, commit); the
\* force_bounce token comes from the time of the call.
MarkForDeployment ==
    /\ mark.pc \in {"none", "returned"}
    /\ pushes < MaxPushes
    /\ pushes' = pushes + 1
    /\ \E branch \in {BranchAB}, commit \in Shas, force_bounce \in Tokens :
          mark' = [ pc |-> "pushing", branch |-> branch,
                    force_bounce |-> force_bounce, commit |-> commit,
                    attempts |-> 0, pushed |-> "", rc |-> 0 ]
    /\ UNCHANGED << configs, remote, manifest, passVars, codec,
                    rollback, store, image >>

\* create_remote_refs(git_url, ref_mutator, force=True) succeeds: the tag
\* points at the commit, and mark_for_deployment returns 0.
CreateRemoteRefs ==
    /\ mark.pc = "pushing"
    /\ remote' = DictSet(remote, FormatTag(mark.branch, mark.force_bounce, START),
                         mark.commit)
    /\ mark' = [mark EXCEPT !.pc = "returned", !.attempts = @ + 1,
                            !.pushed = "ok", !.rc = 0]
    /\ UNCHANGED << configs, manifest, passVars, pushes, codec,
                    rollback, store, image >>

\* Mutant of CreateRemoteRefsRaises: the push is tried again.
CreateRemoteRefsRetried ==
    /\ mark.pc = "pushing"
    /\ mark.attempts < 2
    /\ mark' = [mark EXCEPT !.attempts = @ + 1, !.pushed = "raised"]
    /\ UNCHANGED << configs, remote, manifest, passVars, pushes, codec,
                    rollback, store, image >>

\* create_remote_refs raises: mark_for_deployment returns 1.
CreateRemoteRefsRaises ==
    /\ mark.pc = "pushing"
    /\ mark' = [mark EXCEPT !.pc = "returned", !.attempts = @ + 1,
                            !.pushed = "raised", !.rc = 1]
    /\ UNCHANGED << configs, remote, manifest, passVars, pushes, codec,
                    rollback, store, image >>

\* Another writer moves a deploy group's head or sets a stop tag.
ExternalPush ==
    /\ pushes < MaxPushes
    /\ pushes' = pushes + 1
    /\ \E ref_name \in {DeployRefName(Group1), DeployRefName(Group2),
                        FormatTag(BranchAB, Token5, STOP)},
          sha \in Shas :
          remote' = DictSet(remote, ref_name, sha)
    /\ UNCHANGED << configs, manifest, passVars, mark, codec,
                    rollback, store, image >>

-----------------------------------------------------------------------------
(* The system: resolution passes and writers of one service's repository *)

Next ==
    \/ MainLoad
    \/ NoDeployGroups
    \/ FetchRefs
    \/ FetchFails
    \/ LoopStep
    \/ LoopEnd
    \/ WriteManifest
    \/ MarkForDeployment
    \/ CreateRemoteRefs
    \/ CreateRemoteRefsRaises
    \/ ExternalPush

Spec == Init /\ [][Next]_vars

-----------------------------------------------------------------------------
(* get_deploy_group_mappings over any snapshot list_remote_refs may return *)

\* Heads of the deploy groups in a snapshot.
HeadMaps ==
    { (DeployRefName(Group1) :> Sha1) @@ (DeployRefName(Group2) :> Sha2),
      (DeployRefName(Group1) :> Sha1) @@ (DeployRefName(Group2) :> Sha1),
      (DeployRefName(Group1) :> Sha1) }

\* At most MaxTags state tags, each at a commit.
TagMaps ==
    UNION { [S -> Shas] : S \in {T \in SUBSET StateTags : Cardinality(T) <= MaxTags} }

Snapshots == { heads @@ tags : heads \in HeadMaps, tags \in TagMaps }

\* A pass that has just fetched its snapshot.
InitResolve ==
    /\ configs \in ServiceConfigs \ { <<>> }
    /\ remote_refs \in Snapshots
    /\ remote = remote_refs
    /\ manifest = FileMissing
    /\ pc = "fetched"
    /\ raised = ""
    /\ old_mappings = EmptyDict
    /\ todo = DOMAIN DeployGroupBranchMappings(configs)
    /\ mappings = EmptyDict
    /\ calls = <<>>
    /\ fetches = 1
    /\ prior = FileMissing
    /\ pushes = 0
    /\ mark = NoMark
    /\ codec = NoCodec
    /\ rollback = NoRollback
    /\ store = NoStore
    /\ image = NoImage

NextResolve ==
    \/ LoopStep
    \/ LoopEnd
    \/ WriteManifest

SpecResolve == InitResolve /\ [][NextResolve]_vars

-----------------------------------------------------------------------------
(* The tag codec: a tag is formatted, then matched by get_desired_state's
   pattern *)

\* Tokens without "-", and states: the two of the protocol, the empty one
\* and one with a "-".
CodecTokens == Tokens \cup { << "0", "_", "x" >> }
CodecStates == { START, STOP, <<>>, << "s", "t", "o", "p", "-", "x" >> }

InitCodec ==
    /\ configs = <<>>
    /\ remote = EmptyDict
    /\ manifest = FileMissing
    /\ pc = "idle"
    /\ raised = ""
    /\ old_mappings = EmptyDict
    /\ remote_refs = EmptyDict
    /\ todo = {}
    /\ mappings = EmptyDict
    /\ calls = <<>>
    /\ fetches = 0
    /\ prior = FileMissing
    /\ pushes = 0
    /\ mark = NoMark
    /\ rollback = NoRollback
    /\ store = NoStore
    /\ image = NoImage
    /\ \E branch \in Branches, with_branch \in Branches,
          force_bounce \in CodecTokens, state \in CodecStates :
          codec = [ pc |-> "input", branch |-> branch, with_branch |-> with_branch,
                    force_bounce |-> force_bounce, state |-> state,
                    ref_name |-> <<>>, match |-> <<>> ]

\* The tag for (branch, force_bounce, state) is written.
CodecFormat ==
    /\ codec.pc = "input"
    /\ codec' = [codec EXCEPT !.pc = "formatted",
                              !.ref_name = FormatTag(codec.branch, codec.force_bounce,
                                                     codec.state)]
    /\ UNCHANGED << configs, remote, manifest, passVars, pushes, mark,
                    rollback, store, image >>

\* get_desired_state for with_branch matches the tag, lines 177-187.
CodecMatch ==
    /\ codec.pc = "formatted"
    /\ codec' = [codec EXCEPT !.pc = "matched",
                              !.match = TagMatch(codec.with_branch, codec.ref_name)]
    /\ UNCHANGED << configs, remote, manifest, passVars, pushes, mark,
                    rollback, store, image >>

NextCodec ==
    \/ CodecFormat
    \/ CodecMatch

SpecCodec == InitCodec /\ [][NextCodec]_vars

-----------------------------------------------------------------------------
(* Properties of get_desired_state *)

\* The (state, force_bounce) pairs of the refs of a snapshot that point at
\* the deploy group's head commit and match the pattern for the branch.
HeadCandidates(branch, refs, deploy_group) ==
    { << TagMatch(branch, r)[1].state, TagMatch(branch, r)[1].force_bounce >> :
        r \in { q \in DOMAIN refs : /\ refs[q] = refs[DeployRefName(deploy_group)]
                                    /\ TagMatch(branch, q) # <<>> } }

\* C1: when refs at the deploy group's head commit decode as state tags for
\* the branch, get_desired_state returns one of their pairs, and no such pair
\* has a force_bounce that is greater as a string; of the tokens "5" and "42"
\* it is "5" that wins.  Tags at other commits are no candidates.
C1_GreatestForceBounce ==
    \A i \in DOMAIN calls :
        LET c == calls[i]
            cands == HeadCandidates(c.branch, remote_refs, c.deploy_group)
        IN  cands # {} =>
                /\ c.ret \in cands
                /\ \A x \in cands : StrCmp(x[2], c.ret[2]) <= 0
                /\ { x[2] : x \in cands } = {Token5, Token42} => c.ret[2] = Token5

\* A call with the candidates "5" and "42" at the head commit, and "5"
\* returned.
C1_Witness ==
    \E i \in DOMAIN calls :
        LET c == calls[i]
            cands == HeadCandidates(c.branch, remote_refs, c.deploy_group)
        IN  /\ { x[2] : x \in cands } = {Token5, Token42}
            /\ c.ret[2] = Token5

\* C2: when no ref at the deploy group's head commit decodes as a state tag
\* for the branch, get_desired_state returns ('start', None).
C2_DefaultStart ==
    \A i \in DOMAIN calls :
        LET c == calls[i] IN
        HeadCandidates(c.branch, remote_refs, c.deploy_group) = {}
            => c.ret = << START, None >>

\* A call that returned the default although a tag for the branch sits at
\* another commit.
C2_Witness ==
    \E i \in DOMAIN calls :
        LET c == calls[i] IN
        /\ HeadCandidates(c.branch, remote_refs, c.deploy_group) = {}
        /\ c.ret = << START, None >>
        /\ \E r \in DOMAIN remote_refs :
              /\ TagMatch(c.branch, r) # <<>>
              /\ remote_refs[r] # remote_refs[DeployRefName(c.deploy_group)]


\* C8: the pair get_desired_state returns is the same for every order in
\* which the refs of the snapshot are enumerated.
C8_OrderIndependent ==
    \A i \in DOMAIN calls :
        \A order \in Orders(DOMAIN remote_refs) :
            GetDesiredState(calls[i].branch, remote_refs, calls[i].deploy_group, order)
                = calls[i].ret

-----------------------------------------------------------------------------
(* Properties of get_deploy_group_mappings *)

\* C3: the desired_state of every mapping is 'start' or 'stop'.
C3_StartOrStop ==
    \A k \in DOMAIN mappings : mappings[k].desired_state \in {START, STOP}

\* The deploy groups the configs name.
Groups == {Group1, Group2}

\* C4 as stated: get_deploy_group_mappings returns without an error, and its
\* result has the key <service>:<deploy_group> exactly for the deploy groups
\* of the instance configs whose head is in the snapshot.
C4_KeyIffConfigured ==
    pc = "resolved" =>
        /\ raised = ""
        /\ \A g \in Groups :
              DeployGroupBranchAlias(Service, g) \in DOMAIN mappings
                  <=> /\ \E i \in DOMAIN configs : configs[i].deploy_group = g
                      /\ DeployRefName(g) \in DOMAIN remote_refs

\* C4 amended: the result has the key <service>:<deploy_group> exactly for
\* the deploy groups of the branch -> deploy group dict built from the
\* configs (one deploy group a branch, that of its last config) whose head is
\* in the snapshot; a deploy group without a head adds no entry and no error.
C4_KeyIffMapped ==
    pc = "resolved" =>
        /\ raised = ""
        /\ \A k \in DOMAIN mappings :
              \E g \in Groups : k = DeployGroupBranchAlias(Service, g)
        /\ \A g \in Groups :
              DeployGroupBranchAlias(Service, g) \in DOMAIN mappings
                  <=> /\ \E b \in DOMAIN DeployGroupBranchMappings(configs) :
                            DeployGroupBranchMappings(configs)[b] = g
                      /\ DeployRefName(g) \in DOMAIN remote_refs

\* The loop is over; one configured deploy group has no head in the snapshot
\* and has no entry, another has its entry.
C4_Witness ==
    /\ pc = "resolved"
    /\ raised = ""
    /\ \E b \in DOMAIN DeployGroupBranchMappings(configs) :
          /\ DeployRefName(DeployGroupBranchMappings(configs)[b]) \notin DOMAIN remote_refs
          /\ DeployGroupBranchAlias(Service, DeployGroupBranchMappings(configs)[b])
                 \notin DOMAIN mappings
    /\ DeployGroupBranchAlias(Service, Group1) \in DOMAIN mappings

-----------------------------------------------------------------------------
(* Properties of main *)

\* C5: when list_remote_refs fails, main ends with that exception, no mapping
\* was made, and deployments.json is as it was when the pass began.
C5_FetchFailureNoWrite ==
    raised = "RefFetchError" =>
        /\ pc = "raised"
        /\ mappings = EmptyDict
        /\ manifest = prior

\* A pass over an earlier manifest ended by the failure of the fetch.
C5_Witness ==
    /\ raised = "RefFetchError"
    /\ pc = "raised"
    /\ prior.kind = "json"
    /\ manifest = prior

\* C6: loading the old manifest never raises: no pass ends with an exception
\* before it comes to fetch the refs.
C6_LoadNeverRaises == ~(pc = "raised" /\ fetches = 0)

\* What a pass has resolved comes from its snapshot: every call of
\* get_desired_state was for a deploy group with a head in the snapshot and
\* returned what it returns for the snapshot, with every tag
\* of the snapshot at the head commit among its candidates, every mapping is
\* made of the snapshot's head and such a call, and the manifest written is
\* these mappings.
C7_ResolvedFromSnapshot ==
    /\ \A i \in DOMAIN calls :
          /\ DeployRefName(calls[i].deploy_group) \in DOMAIN remote_refs
          /\ \E order \in Orders(DOMAIN remote_refs) :
                calls[i].ret = GetDesiredState(calls[i].branch, remote_refs,
                                               calls[i].deploy_group, order)
          /\ \A x \in HeadCandidates(calls[i].branch, remote_refs, calls[i].deploy_group) :
                \E j \in DOMAIN calls[i].states : calls[i].states[j] = x
    /\ \A k \in DOMAIN mappings :
          \E i \in DOMAIN calls :
             /\ k = DeployGroupBranchAlias(Service, calls[i].deploy_group)
             /\ DeployRefName(calls[i].deploy_group) \in DOMAIN remote_refs
             /\ mappings[k] =
                  [ docker_image |->
                        build_docker_image_name(
                            Service, remote_refs[DeployRefName(calls[i].deploy_group)]),
                    desired_state |-> calls[i].ret[1],
                    force_bounce |-> calls[i].ret[2] ]
    /\ pc = "done" =>
          manifest = FileJson(JsonDump(
                         get_deployments_dict_from_deploy_group_mappings(mappings)))

\* C7 as stated, its part about the number of fetches: every pass that
\* returns from get_deploy_group_mappings has fetched the refs exactly once,
\* and what it resolved comes from that snapshot.
C7_EveryPassFetchesOnce ==
    /\ pc \in {"resolved", "done"} => fetches = 1
    /\ C7_ResolvedFromSnapshot

\* A pass fetches at most once, and exactly once when the service has an
\* instance config and the pass has come past the fetch.
C7_FromSnapshot ==
    /\ fetches <= 1
    /\ (pc \in {"fetched", "resolved", "done"}
            /\ DeployGroupBranchMappings(configs) # EmptyDict) => fetches = 1
    /\ C7_ResolvedFromSnapshot

\* The snapshot is the repository as it is when the pass fetches, and stays
\* as it is until the pass has written.
C7_SnapshotTaken ==
    /\ (pc = "loaded" /\ pc' = "fetched") => remote_refs' = remote
    /\ pc \in {"fetched", "resolved"} => remote_refs' = remote_refs

\* C7 amended: a pass of a service with at least one instance config fetches
\* the refs exactly once (a service with none is resolved to {} without a
\* fetch) and resolves every deploy group from that snapshot, whatever is
\* pushed meanwhile; the snapshot of a pass holds every ref pushed before its
\* fetch, and every such tag at the head commit is among the candidates.
C7_SnapshotIsolation == [](C7_FromSnapshot) /\ [][C7_SnapshotTaken]_vars

\* A pass has written its manifest with no force_bounce for a deploy group
\* while the repository holds a tag, pushed by mark_for_deployment after the
\* snapshot, that is a candidate at that deploy group's head.
C7_Witness ==
    /\ pc = "done"
    /\ mark.pc = "returned"
    /\ mark.pushed = "ok"
    /\ DeployGroupBranchAlias(Service, Group1) \in DOMAIN mappings
    /\ mappings[DeployGroupBranchAlias(Service, Group1)].force_bounce = None
    /\ LET tag == FormatTag(mark.branch, mark.force_bounce, START) IN
       /\ tag \notin DOMAIN remote_refs
       /\ tag \in DOMAIN remote
       /\ remote[tag] = remote_refs[DeployRefName(Group1)]
       /\ TagMatch(BranchAB, tag) # <<>>

-----------------------------------------------------------------------------
(* Properties of the tag codec *)

\* C9: a tag formatted for (branch, force_bounce, state), the token not empty
\* and without "-", matched with that same branch gives (state, force_bounce).
C9_RoundTrip ==
    (codec.pc = "matched" /\ codec.with_branch = codec.branch) =>
        codec.match = << [ force_bounce |-> codec.force_bounce,
                           state |-> codec.state ] >>

\* A tag of a branch with a "-" and a state with a "-" was matched with its
\* own branch.
C9_Witness ==
    /\ codec.pc = "matched"
    /\ codec.with_branch = codec.branch
    /\ codec.branch = BranchABC
    /\ codec.state = << "s", "t", "o", "p", "-", "x" >>
    /\ codec.match # <<>>

-----------------------------------------------------------------------------
(* Properties of mark_for_deployment *)

\* C10: mark_for_deployment calls create_remote_refs once and returns: 0 when
\* the push succeeded, 1 when it raised.
C10_OnePushAttempt ==
    /\ mark.pc = "pushing" => mark.attempts = 0
    /\ mark.pc = "returned" =>
          /\ mark.attempts = 1
          /\ mark.pushed \in {"ok", "raised"}
          /\ mark.rc = IF mark.pushed = "ok" THEN 0 ELSE 1

\* mark_for_deployment has returned 1 after a push that raised.
C10_Witness ==
    /\ mark.pc = "returned"
    /\ mark.pushed = "raised"
    /\ mark.rc = 1
    /\ mark.attempts = 1

-----------------------------------------------------------------------------
(* paasta_rollback and validate_given_instances                              *)
(* (paasta_tools/paasta_cli/cmds/rollback.py is not part of the sources at   *)
(* hand: both are modelled from the specification and their tests)           *)

Range(s) == { s[i] : i \in DOMAIN s }

\* The variant that treats an empty list as a list of no instances.
ValidateGivenInstancesNoDefault(service_instances, given_instances) ==
    << Range(given_instances) \cap Range(service_instances),
       Range(given_instances) \ Range(service_instances) >>

\* validate_given_instances: the pair (valid, invalid) of sets.
validate_given_instances(service_instances, given_instances) ==
    IF Len(given_instances) = 0
    THEN << Range(service_instances), {} >>
    ELSE << Range(given_instances) \cap Range(service_instances),
            Range(given_instances) \ Range(service_instances) >>

Instance1 == "instance1"
Instance2 == "instance2"
NotAnInstance == "not_an_instance"
InstanceNames == { Instance1, Instance2, NotAnInstance }
ServiceInstanceLists == { << >>, << Instance1 >>, << Instance1, Instance2 >> }
ServiceClusters == { "cluster0", "cluster2" }
GivenClusters == { "cluster0", "cluster1" }
MaxGiven == 2

\* The lists of at most n instance names.
RECURSIVE ListsUpTo(_)
ListsUpTo(n) ==
    IF n = 0 THEN { << >> }
    ELSE LET shorter == ListsUpTo(n - 1)
         IN  shorter \cup { Append(l, i) : l \in { x \in shorter : Len(x) = n - 1 },
                                          i \in InstanceNames }

InitRollback ==
    /\ configs = <<>>
    /\ remote = EmptyDict
    /\ manifest = FileMissing
    /\ pc = "idle"
    /\ raised = ""
    /\ old_mappings = EmptyDict
    /\ remote_refs = EmptyDict
    /\ todo = {}
    /\ mappings = EmptyDict
    /\ calls = <<>>
    /\ fetches = 0
    /\ prior = FileMissing
    /\ pushes = 0
    /\ mark = NoMark
    /\ codec = NoCodec
    /\ store = NoStore
    /\ image = NoImage
    /\ \E cluster \in GivenClusters, service_instances \in ServiceInstanceLists,
          given_instances \in ListsUpTo(MaxGiven) :
          rollback = [ NoRollback EXCEPT !.pc = "start", !.cluster = cluster,
                                         !.service_instances = service_instances,
                                         !.given_instances = given_instances ]

\* The cluster is not one of the service's clusters: nothing is marked, exit 1.
RollbackWrongCluster ==
    /\ rollback.pc = "start"
    /\ rollback.cluster \notin ServiceClusters
    /\ rollback' = [ rollback EXCEPT !.pc = "exited", !.returncode = 1 ]
    /\ UNCHANGED << configs, remote, manifest, passVars, pushes, mark, codec,
                    store, image >>

\* The variant that skips the invalid instances and marks the valid ones.
RollbackSkipsInvalid ==
    /\ rollback.pc = "start"
    /\ rollback.cluster \in ServiceClusters
    /\ LET v == validate_given_instances(rollback.service_instances,
                                         rollback.given_instances)
       IN  /\ v[2] # {}
           /\ rollback' = [ rollback EXCEPT !.pc = "marking", !.instances = v[1],
                                            !.invalid = v[2], !.todo = v[1] ]
    /\ UNCHANGED << configs, remote, manifest, passVars, pushes, mark, codec,
                    store, image >>

\* A named instance is not an instance of the service: nothing is marked, exit 1.
RollbackInvalidInstances ==
    /\ rollback.pc = "start"
    /\ rollback.cluster \in ServiceClusters
    /\ LET v == validate_given_instances(rollback.service_instances,
                                         rollback.given_instances)
       IN  /\ v[2] # {}
           /\ rollback' = [ rollback EXCEPT !.pc = "exited", !.instances = v[1],
                                            !.invalid = v[2], !.returncode = 1 ]
    /\ UNCHANGED << configs, remote, manifest, passVars, pushes, mark, codec,
                    store, image >>

\* Every named instance is valid: the valid instances are to be marked.
RollbackValid ==
    /\ rollback.pc = "start"
    /\ rollback.cluster \in ServiceClusters
    /\ LET v == validate_given_instances(rollback.service_instances,
                                         rollback.given_instances)
       IN  /\ v[2] = {}
           /\ rollback' = [ rollback EXCEPT !.pc = "marking", !.instances = v[1],
                                            !.invalid = v[2], !.todo = v[1] ]
    /\ UNCHANGED << configs, remote, manifest, passVars, pushes, mark, codec,
                    store, image >>

\* One call of mark_for_deployment, for one valid instance; it succeeds or fails.
RollbackMark ==
    /\ rollback.pc = "marking"
    /\ \E instance \in rollback.todo, rc \in { 0, 1 } :
          rollback' = [ rollback EXCEPT !.todo = @ \ { instance },
                                        !.marked = Append(@, instance),
                                        !.failed = @ \/ rc # 0 ]
    /\ UNCHANGED << configs, remote, manifest, passVars, pushes, mark, codec,
                    store, image >>

\* Every valid instance was attempted: exit 0 only if every call succeeded.
RollbackExit ==
    /\ rollback.pc = "marking"
    /\ rollback.todo = {}
    /\ rollback' = [ rollback EXCEPT !.pc = "exited",
                                     !.returncode = IF rollback.failed THEN 1 ELSE 0 ]
    /\ UNCHANGED << configs, remote, manifest, passVars, pushes, mark, codec,
                    store, image >>

NextRollback ==
    \/ RollbackWrongCluster
    \/ RollbackInvalidInstances
    \/ RollbackValid
    \/ RollbackMark
    \/ RollbackExit

SpecRollback == InitRollback /\ [][NextRollback]_vars

-----------------------------------------------------------------------------
(* Claims about paasta_rollback and validate_given_instances *)

\* The instances a rollback is asked for: every known one when none is named.
RequestedInstances ==
    IF rollback.given_instances = <<>>
    THEN Range(rollback.service_instances)
    ELSE Range(rollback.given_instances)

\* C11: when paasta_rollback has exited, mark_for_deployment was called
\* exactly once for every valid instance (every known instance when the
\* instance list is empty), and not at all when a requested instance is
\* invalid or the given cluster is not one of the service's clusters.
C11_OneMarkPerValidInstance ==
    rollback.pc = "exited" =>
        IF \/ rollback.cluster \notin ServiceClusters
           \/ \E i \in Range(rollback.given_instances) :
                 i \notin Range(rollback.service_instances)
        THEN rollback.marked = <<>>
        ELSE /\ Range(rollback.marked) = RequestedInstances
             /\ Len(rollback.marked) = Cardinality(RequestedInstances)

\* A rollback with no instance named has marked both known instances.
C11_Witness ==
    /\ rollback.pc = "exited"
    /\ rollback.cluster \in ServiceClusters
    /\ rollback.given_instances = <<>>
    /\ Len(rollback.marked) = 2
    /\ Range(rollback.marked) = { Instance1, Instance2 }

\* C12: validate_given_instances(known, given) returns two sets: for a
\* non-empty given list, valid is set(given) & set(known) and invalid is
\* set(given) - set(known), duplicates collapsing; for an empty given list,
\* valid is set(known) and invalid is empty.
C12_ValidAndInvalidSets ==
    rollback.pc \in { "marking", "exited" } /\ rollback.cluster \in ServiceClusters =>
        LET known == rollback.service_instances
            given == rollback.given_instances
        IN  IF given = <<>>
            THEN /\ rollback.instances = { known[i] : i \in DOMAIN known }
                 /\ rollback.invalid = {}
            ELSE /\ rollback.instances =
                        { i \in InstanceNames :
                            /\ \E k \in DOMAIN given : given[k] = i
                            /\ \E k \in DOMAIN known : known[k] = i }
                 /\ rollback.invalid =
                        { i \in InstanceNames :
                            /\ \E k \in DOMAIN given : given[k] = i
                            /\ ~ \E k \in DOMAIN known : known[k] = i }

\* A list naming one instance twice was validated against a service that
\* has it: the valid set holds it once.
C12_Witness ==
    /\ rollback.pc = "marking"
    /\ rollback.given_instances = << Instance1, Instance1 >>
    /\ rollback.service_instances = << Instance1, Instance2 >>
    /\ rollback.instances = { Instance1 }
    /\ rollback.invalid = {}

-----------------------------------------------------------------------------
(* The two conversions between a set of mappings and a deployments dict *)

\* The mappings get_deploy_group_mappings can give one deploy group.
StoreMappingValues ==
    [ docker_image : { build_docker_image_name(Service, sha) : sha \in Shas },
      desired_state : { START, STOP },
      force_bounce : { None, Token5 } ]

StoreKeys == { DeployGroupBranchAlias(Service, Group1),
               DeployGroupBranchAlias(Service, Group2) }

\* The sets of mappings: every dict from some of the keys to mappings.
StoreMappings == UNION { [ keys -> StoreMappingValues ] : keys \in SUBSET StoreKeys }

\* The values a document without 'v1' may hold under a key, as Python has
\* them: a str, a unicode, None.
LegacyValues ==
    { [t |-> "str", v |-> build_docker_image_name(Service, Sha1)],
      [t |-> "unicode", v |-> build_docker_image_name(Service, Sha1)],
      [t |-> "NoneType", v |-> <<>>] }

\* The dicts without 'v1'.
LegacyDicts == UNION { [ keys -> LegacyValues ] : keys \in SUBSET StoreKeys }

InitStore ==
    /\ configs = <<>>
    /\ remote = EmptyDict
    /\ manifest = FileMissing
    /\ pc = "idle"
    /\ raised = ""
    /\ old_mappings = EmptyDict
    /\ remote_refs = EmptyDict
    /\ todo = {}
    /\ mappings = EmptyDict
    /\ calls = <<>>
    /\ fetches = 0
    /\ prior = FileMissing
    /\ pushes = 0
    /\ mark = NoMark
    /\ codec = NoCodec
    /\ rollback = NoRollback
    /\ image = NoImage
    /\ \/ \E m \in StoreMappings :
             store = [ NoStore EXCEPT !.pc = "mappings", !.mappings = m ]
       \/ \E d \in LegacyDicts :
             store = [ NoStore EXCEPT !.pc = "legacy", !.deployments_dict = d ]

\* get_deployments_dict_from_deploy_group_mappings(mappings)
StoreToDict ==
    /\ store.pc = "mappings"
    /\ store' = [ store EXCEPT
                    !.pc = "document",
                    !.deployments_dict =
                        get_deployments_dict_from_deploy_group_mappings(store.mappings) ]
    /\ UNCHANGED << configs, remote, manifest, passVars, pushes, mark, codec,
                    rollback, image >>

\* get_deploy_group_mappings_from_deployments_dict(deployments_dict)
StoreFromDict ==
    /\ store.pc \in { "document", "legacy" }
    /\ store' = [ store EXCEPT
                    !.pc = IF store.pc = "document" THEN "loaded" ELSE "upgraded",
                    !.loaded =
                        get_deploy_group_mappings_from_deployments_dict(
                            store.deployments_dict) ]
    /\ UNCHANGED << configs, remote, manifest, passVars, pushes, mark, codec,
                    rollback, image >>

NextStore ==
    \/ StoreToDict
    \/ StoreFromDict

SpecStore == InitStore /\ [][NextStore]_vars

-----------------------------------------------------------------------------
(* Claims about the two conversions *)

\* C13: saving and loading round-trips: for every set m of mappings with the
\* documented fields, get_deploy_group_mappings_from_deployments_dict(
\* get_deployments_dict_from_deploy_group_mappings(m)) equals m, and the
\* document in between is exactly {"v1": m}.
C13_SaveLoadRoundTrip ==
    /\ store.pc \in { "document", "loaded" } =>
          /\ DOMAIN store.deployments_dict = { << "v", "1" >> }
          /\ store.deployments_dict[<< "v", "1" >>] = store.mappings
    /\ store.pc = "loaded" => store.loaded = store.mappings

\* Mappings for two deploy groups, one stopped with a force_bounce and one
\* started with None, were wrapped and read back.
C13_Witness ==
    /\ store.pc = "loaded"
    /\ DOMAIN store.mappings = StoreKeys
    /\ \E k \in StoreKeys : /\ store.loaded[k].desired_state = STOP
                            /\ store.loaded[k].force_bounce = Token5
    /\ \E k \in StoreKeys : /\ store.loaded[k].desired_state = START
                            /\ store.loaded[k].force_bounce = None

-----------------------------------------------------------------------------
(* Claims about the mappings of get_deploy_group_mappings *)

\* C15: for every deploy group that has a mapping, docker_image is exactly
\* "services-<service>:paasta-<sha>", sha being the commit that
\* refs/heads/<deploy_group> points at in the snapshot, whatever the control
\* branches, the state tags and the enumeration orders are.
C15_ImageOfHead ==
    \A g \in Groups :
        DeployGroupBranchAlias(Service, g) \in DOMAIN mappings =>
            /\ << "r", "e", "f", "s", "/", "h", "e", "a", "d", "s", "/" >> \o g
                   \in DOMAIN remote_refs
            /\ mappings[DeployGroupBranchAlias(Service, g)].docker_image =
                   << "s", "e", "r", "v", "i", "c", "e", "s", "-" >> \o Service
                       \o << ":", "p", "a", "a", "s", "t", "a", "-" >>
                       \o remote_refs[<< "r", "e", "f", "s", "/", "h", "e", "a", "d", "s", "/" >> \o g]

\* Two deploy groups with heads at different commits have their mappings,
\* one of them stopped by a state tag.
C15_Witness ==
    /\ pc = "resolved"
    /\ DeployGroupBranchAlias(Service, Group1) \in DOMAIN mappings
    /\ mappings[DeployGroupBranchAlias(Service, Group1)].docker_image =
           build_docker_image_name(Service, Sha1)
    /\ DeployGroupBranchAlias(Service, Group2) \in DOMAIN mappings
    /\ mappings[DeployGroupBranchAlias(Service, Group2)].docker_image =
           build_docker_image_name(Service, Sha2)
    /\ \E k \in DOMAIN mappings : mappings[k].desired_state = STOP

-----------------------------------------------------------------------------
(* get_service_from_docker_image *)

\* The literals of the pattern '.*/services-(.*?):paasta-.*?'
SlashServices == << "/", "s", "e", "r", "v", "i", "c", "e", "s", "-" >>
ColonPaasta == << ":", "p", "a", "a", "s", "t", "a", "-" >>

\* text holds lit from position i on.
OccursAt(text, lit, i) ==
    /\ i >= 1
    /\ i + Len(lit) - 1 <= Len(text)
    /\ SubSeq(text, i, i + Len(lit) - 1) = lit

\* The variant whose leading '.*' is lazy: it ends at the first '/services-'.
GetServiceAfterFirstSlashServices(image_name) ==
    LET ends(i) == { j \in (i + Len(SlashServices))..Len(image_name) :
                       OccursAt(image_name, ColonPaasta, j) }
        starts == { i \in 1..Len(image_name) :
                      /\ OccursAt(image_name, SlashServices, i)
                      /\ ends(i) # {} }
    IN  IF starts = {}
        THEN [ raised |-> "AttributeError", service |-> <<>> ]
        ELSE LET i == CHOOSE x \in starts : \A y \in starts : x <= y
                 j == CHOOSE x \in ends(i) : \A y \in ends(i) : x <= y
             IN  [ raised |-> "",
                   service |-> SubSeq(image_name, i + Len(SlashServices), j - 1) ]

\* re.search('.*/services-(.*?):paasta-.*?', image_name) and group(1).
\* The greedy '.*' ends at the last '/services-' that has a ':paasta-'
\* somewhere after it; the lazy group ends at the first ':paasta-' after
\* that; the lazy tail matches nothing.  No character of Alphabet is a
\* newline, so the search from the first position finds every match.  With
\* no match re.search returns None and .group raises AttributeError.
get_service_from_docker_image(image_name) ==
    LET ends(i) == { j \in (i + Len(SlashServices))..Len(image_name) :
                       OccursAt(image_name, ColonPaasta, j) }
        starts == { i \in 1..Len(image_name) :
                      /\ OccursAt(image_name, SlashServices, i)
                      /\ ends(i) # {} }
    IN  IF starts = {}
        THEN [ raised |-> "AttributeError", service |-> <<>> ]
        ELSE LET i == CHOOSE x \in starts : \A y \in starts : y <= x
                 j == CHOOSE x \in ends(i) : \A y \in ends(i) : x <= y
             IN  [ raised |-> "",
                   service |-> SubSeq(image_name, i + Len(SlashServices), j - 1) ]

\* Registries: a host, a host with a port, a host with a path that itself
\* holds '/services-'.
ImageRegistries ==
    { << "r" >>,
      << "r", ":", "4", "4", "3" >>,
      << "r", "/", "s", "e", "r", "v", "i", "c", "e", "s", "-", "x" >> }

\* Service names without "/": plain ones, ones that hold the words of the
\* image name, one with a ":", one that holds ':paasta-'.
ImageServices ==
    { Service,
      << "a", "_", "b" >>,
      << "a", "-", "b", ".", "c" >>,
      << "s", "e", "r", "v", "i", "c", "e", "s", "-", "x" >>,
      << "p", "a", "a", "s", "t", "a", "-", "x" >>,
      << "a", ":", "b" >>,
      << "a" >> \o ColonPaasta \o << "b" >> }

InitImage ==
    /\ configs = <<>>
    /\ remote = EmptyDict
    /\ manifest = FileMissing
    /\ pc = "idle"
    /\ raised = ""
    /\ old_mappings = EmptyDict
    /\ remote_refs = EmptyDict
    /\ todo = {}
    /\ mappings = EmptyDict
    /\ calls = <<>>
    /\ fetches = 0
    /\ prior = FileMissing
    /\ pushes = 0
    /\ mark = NoMark
    /\ codec = NoCodec
    /\ rollback = NoRollback
    /\ store = NoStore
    /\ \E registry \in ImageRegistries, service \in ImageServices, sha \in Shas :
          image = [ NoImage EXCEPT !.pc = "input", !.registry = registry,
                                   !.service = service, !.sha = sha ]

\* '<registry>/' + build_docker_image_name(service, sha)
ImageBuild ==
    /\ image.pc = "input"
    /\ image' = [ image EXCEPT
                    !.pc = "built",
                    !.image_name = image.registry \o << "/" >>
                                     \o build_docker_image_name(image.service, image.sha) ]
    /\ UNCHANGED << configs, remote, manifest, passVars, pushes, mark, codec,
                    rollback, store >>

\* get_service_from_docker_image(image_name)
ImageParse ==
    /\ image.pc = "built"
    /\ LET r == get_service_from_docker_image(image.image_name)
       IN  image' = [ image EXCEPT !.pc = "parsed",
                                   !.matched = (r.raised = ""),
                                   !.group = r.service ]
    /\ UNCHANGED << configs, remote, manifest, passVars, pushes, mark, codec,
                    rollback, store >>

NextImage ==
    \/ ImageBuild
    \/ ImageParse

SpecImage == InitImage /\ [][NextImage]_vars

-----------------------------------------------------------------------------
(* Claim about get_service_from_docker_image *)

-----------------------------------------------------------------------------
(* Claims about the manifest a pass writes and the manifest it found *)

\* The manifests of the kinds absent, corrupt, legacy and v1.
PriorOfKnownKind ==
    \/ prior.kind \in { "missing", "garbage" }
    \/ prior.kind = "json" /\ prior.value.t = "object"

\* The JSON of the mapping that control branch b gives deploy group g from
\* the snapshot, the refs enumerated in the given order.
MappingJsonOf(b, g, order) ==
    LET ds == GetDesiredState(b, remote_refs, g, order) IN
    JsonObject([ docker_image |->
                     DumpField(build_docker_image_name(
                                   Service, remote_refs[DeployRefName(g)])),
                 desired_state |-> DumpField(ds[1]),
                 force_bounce |-> DumpField(ds[2]) ])

-----------------------------------------------------------------------------
(* Claim about the branch a state tag belongs to *)

\* C18: a state tag counts only for the control branch it was written for:
\* get_desired_state called for a control branch takes no candidate from a
\* tag written for a different control branch, be it one that extends the
\* branch by a hyphenated suffix or one that differs from it only where the
\* branch has a ".".
C18_OnlyOwnBranch ==
    (codec.pc = "matched" /\ codec.with_branch # codec.branch) =>
        codec.match = <<>>

-----------------------------------------------------------------------------
(* Claim about control branches that share a deploy group *)

\* The control branches the configs give deploy group g.
BranchesOf(g) ==
    { b \in DOMAIN DeployGroupBranchMappings(configs) :
        DeployGroupBranchMappings(configs)[b] = g }

\* The pairs (desired_state, force_bounce) get_desired_state can return for
\* control branch b and deploy group g from the snapshot.  The refs that do
\* not match the tag pattern of b add nothing to its states, whatever their
\* place in the enumeration: the orders of the matching refs give every
\* result.
ResolutionsOf(b, g) ==
    { GetDesiredState(b, remote_refs, g, order) :
        order \in Orders({ r \in DOMAIN remote_refs : TagMatch(b, r) # <<>> }) }

\* C19: when several control branches are configured for one deploy group
\* that has a head, the result has one mapping under <service>:<deploy_group>,
\* and its desired_state and force_bounce are together the pair resolved for
\* one of those branches, never the state of one with the force_bounce of
\* another; when the branches resolve to one common pair the mapping has
\* that pair.
C19_PairOfOneBranch ==
    pc = "resolved" =>
        \A g \in Groups :
            (Cardinality(BranchesOf(g)) >= 2 /\ DeployRefName(g) \in DOMAIN remote_refs) =>
                LET k == DeployGroupBranchAlias(Service, g) IN
                /\ k \in DOMAIN mappings
                /\ Cardinality({ a \in DOMAIN mappings : a = k }) = 1
                /\ \E b \in BranchesOf(g) :
                      << mappings[k].desired_state, mappings[k].force_bounce >>
                          \in ResolutionsOf(b, g)
                /\ LET all == UNION { ResolutionsOf(b, g) : b \in BranchesOf(g) }
                   IN  Cardinality(all) = 1 =>
                          { << mappings[k].desired_state, mappings[k].force_bounce >> } = all

\* Two control branches of one deploy group resolved to different pairs, and
\* the mapping has the pair of the one resolved last.
C19_Witness ==
    /\ pc = "resolved"
    /\ Len(calls) = 2
    /\ calls[1].deploy_group = calls[2].deploy_group
    /\ calls[1].branch # calls[2].branch
    /\ calls[1].ret # calls[2].ret
    /\ calls[1].ret[2] # None
    /\ calls[2].ret[2] # None
    /\ mappings[DeployGroupBranchAlias(Service, calls[2].deploy_group)].desired_state
           = calls[2].ret[1]
    /\ mappings[DeployGroupBranchAlias(Service, calls[2].deploy_group)].force_bounce
           = calls[2].ret[2]

====
